---- MODULE Spec2Model ----
(***************************************************************************)
(* WF-VAE top-level model (causalvideovae/model/vae/modeling_wfvae.py) and *)
(* the cached up-sampler (causalvideovae/model/modules/updownsample.py):   *)
(* tiling toggle, lazily pinned temporal size, automatic chunk-size        *)
(* selection, chunk schedule, tiled encode/decode loops and the per-module *)
(* causal cache.                                                           *)
(*                                                                         *)
(* A tensor is modelled by its time axis only: a sequence of frames, each  *)
(* frame being the index of the latent frame it stems from.  Batch,        *)
(* channel and spatial axes, and the length-preserving layers (residual    *)
(* blocks, attention, stride-1 causal convolutions, 2D convolutions, the   *)
(* spatial interpolation) do not change the number or the order of frames  *)
(* and are left out.                                                       *)
(*                                                                         *)
(* The stand-alone functions (the temporal resampling blocks on frame      *)
(* values, read_video, init_from_ckpt) have a specification each, which    *)
(* draws the arguments in its initial state and applies the function once. *)
(***************************************************************************)
EXTENDS Integers, Sequences, FiniteSets, TLC

VARIABLES
    temporal_uptimes,  \* 4 or 8, fixed by the constructor
    use_tiling,        \* WFVAEModel.use_tiling
    temporal_size,     \* WFVAEModel.temporal_size (None until the first tiled call)
    t_chunk_enc,       \* WFVAEModel.t_chunk_enc
    t_chunk_dec,       \* WFVAEModel.t_chunk_dec
    enable_cached,     \* depth -> Spatial2xTime2x3DUpsample.enable_cached
    causal_cached,     \* depth -> Spatial2xTime2x3DUpsample.causal_cached (a deque)
    is_first_chunk,    \* the flag _set_first_chunk writes on every module exposing it
    pc,                \* "idle", "tile_encode", "tile_decode", "forward"
    x_len,             \* time length of the tensor of the running call
    start_end,         \* chunk schedule of the running tiled call
    idx,               \* index of the next chunk of the running tiled call
    result,            \* frames produced so far by the running / last decode
    in_forward,        \* the running encode was called by forward
    callId,            \* number of top-level encode/decode calls entered so far
    call,              \* the last top-level call entered: [id, op, size, tiled, pinned, fwd]
    outcome,           \* how that call ended: "none", "running", "ok" or the error raised
    invoked,           \* the last encoder/decoder invocation and the flags it saw
    popped,            \* depth -> the last entry popped: appended by call, popped by
    toggled,           \* the last enable_tiling call: [done, arg]
    args,              \* arguments of a stand-alone function call (fn = "none": no call)
    ret                \* what that call returned or raised

\* The fields of the WFVAEModel instance and the history of its calls.
wfvae ==
    << temporal_uptimes, use_tiling, temporal_size, t_chunk_enc, t_chunk_dec,
       enable_cached, causal_cached, is_first_chunk, pc, x_len, start_end, idx,
       result, in_forward, callId, call, outcome, invoked, popped, toggled >>

vars == << wfvae, args, ret >>

\* Largest latent length handed to decode.
MaxLatent == 7
\* Largest video length handed to encode / forward.
MaxT == 17
\* Number of top-level encode/decode calls in one run.
MaxCalls == 2
\* Largest chunk size set by hand before build_chunk_start_end is called.
MaxChunk == 5

\* Python's None for the three lazily established fields.
None == -1

Min(a, b) == IF a < b THEN a ELSE b

Max(a, b) == IF a > b THEN a ELSE b

Last(s) == s[Len(s)]

RECURSIVE Pow2(_)
Pow2(n) == IF n = 0 THEN 1 ELSE 2 * Pow2(n - 1)

\* int(math.log(t_compess_rate, 2)) for the two supported rates.
Log2(r) == IF r = 4 THEN 2 ELSE 3

\* x[a:b] of Python on a sequence of n frames, for 0 <= a, b (already clamped).
Slice(x, a, b) == SubSeq(x, a + 1, Min(b, Len(x)))

(***************************************************************************)
(* _auto_select_t_chunk                                                    *)
(***************************************************************************)

\* Each step halves without the + 1: T_list.append((T_list[-1] - 1) // 2).
RECURSIVE T_list_halved(_, _)
T_list_halved(T, downsample_times) ==
    IF downsample_times = 0
    THEN << T >>
    ELSE LET prev == T_list_halved(T, downsample_times - 1)
         IN  Append(prev, (Last(prev) - 1) \div 2)

\* T_list = [temporal_size]; then downsample_times times
\* T_list.append((T_list[-1] - 1) // 2 + 1).
RECURSIVE T_list(_, _)
T_list(T, downsample_times) ==
    IF downsample_times = 0
    THEN << T >>
    ELSE LET prev == T_list(T, downsample_times - 1)
         IN  Append(prev, (Last(prev) - 1) \div 2 + 1)

\* The decoder chunk size is never judged.
DecChunkNeverInvalid(t_last, dec_t_chunk) == FALSE

\* "Judge if decoder chunk is valid": the test that doubles dec_t_chunk and
\* restarts the while loop.
DecChunkInvalid(t_last, dec_t_chunk) == (t_last - 1) % dec_t_chunk = 1

\* One pass of "for inner_T in T_list[:-1]" starting at position i.  Both
\* `continue` statements sit inside the for loop, so each only moves on to the
\* next inner_T with enc_t_chunk doubled; the while loop is not restarted.
\* (inner_T - 1) / enc_t_chunk > 1 is a true division: inner_T - 1 > enc_t_chunk.
RECURSIVE EncChunkAfterFor(_, _, _)
EncChunkAfterFor(inner, i, enc_t_chunk) ==
    IF i > Len(inner)
    THEN enc_t_chunk
    ELSE LET inner_T == inner[i]
         IN  IF (inner_T - 1) % 2 # 0
             THEN EncChunkAfterFor(inner, i + 1, enc_t_chunk * 2)
             ELSE IF (inner_T - 1) % enc_t_chunk = 1 /\ (inner_T - 1) > enc_t_chunk
                  THEN EncChunkAfterFor(inner, i + 1, enc_t_chunk * 2)
                  ELSE EncChunkAfterFor(inner, i + 1, enc_t_chunk)

\* The while loop: [ok, enc, dec]; ok = FALSE is the ValueError
\* "Can't find valid chunk size...", raised before either field is assigned.
RECURSIVE AutoSelectLoop(_, _, _, _)
AutoSelectLoop(T, rate, dec_t_chunk, enc_t_chunk) ==
    IF ~(dec_t_chunk < T /\ enc_t_chunk < T)
    THEN [ok |-> FALSE, enc |-> None, dec |-> None]
    ELSE LET tl == T_list(T, Log2(rate))
         IN  IF DecChunkInvalid(Last(tl), dec_t_chunk)
             THEN AutoSelectLoop(T, rate, dec_t_chunk * 2, enc_t_chunk)
             ELSE [ok  |-> TRUE,
                   enc |-> EncChunkAfterFor(SubSeq(tl, 1, Len(tl) - 1), 1, enc_t_chunk),
                   dec |-> dec_t_chunk]

\* The search starts from dec_t_chunk = 1.
_auto_select_t_chunk_from_one(T, rate) == AutoSelectLoop(T, rate, 1, rate)

\* dec_t_chunk = 2, enc_t_chunk = t_compess_rate, then the loop.
_auto_select_t_chunk(T, rate) == AutoSelectLoop(T, rate, 2, rate)

(***************************************************************************)
(* build_chunk_start_end                                                   *)
(***************************************************************************)

\* The loop without the clip to t: end = end + chunk.
RECURSIVE ChunkLoopUnclipped(_, _, _, _)
ChunkLoopUnclipped(acc, start, t, chunk) ==
    IF start >= t
    THEN acc
    ELSE ChunkLoopUnclipped(Append(acc, << start, start + chunk >>),
                            start + chunk, t, chunk)

build_chunk_start_end_unclipped(t, chunk) ==
    ChunkLoopUnclipped(<< << 0, 1 >> >>, 1, t, chunk)

\* The while True loop, entered with start = end (the code keeps them equal).
RECURSIVE ChunkLoop(_, _, _, _)
ChunkLoop(acc, start, t, chunk) ==
    IF start >= t
    THEN acc
    ELSE LET end == Min(t, start + chunk)
         IN  ChunkLoop(Append(acc, << start, end >>), end, t, chunk)

\* chunk = t_chunk_dec if decoder_mode else t_chunk_enc.
build_chunk_start_end(t, chunk) == ChunkLoop(<< << 0, 1 >> >>, 1, t, chunk)

\* `end + None` raises TypeError as soon as the loop body runs with an unset
\* chunk size; with t <= 1 the body never runs.
ChunkTypeError(t, chunk) == chunk = None /\ 1 < t

(***************************************************************************)
(* Spatial2xTime2x3DUpsample                                               *)
(***************************************************************************)

\* F.interpolate(x, scale_factor=(2, 1, 1), mode="nearest") on the time axis:
\* output frame j (0-based) is input frame j // 2.
InterpolateT2(x) == [j \in 1..(2 * Len(x)) |-> x[(j + 1) \div 2]]

\* The slice every stage would take at depth 0: x[:, :, -2:-1].
EdgeSliceDepth0(x, depth) == Slice(x, Max(Len(x) - 2, 0), Max(Len(x) - 1, 0))

\* x[:, :, -(2**depth) - 1 : -(2**depth)]: the frame 2**depth + 1 positions from
\* the end, or an empty tensor when x is shorter than that.
EdgeSlice(x, depth) ==
    LET n == Len(x)
        k == Pow2(depth)
    IN  Slice(x, Max(n - k - 1, 0), Max(n - k, 0))

\* The cached frame is read but left in the deque.
PopCachedPeek(cached) == cached

\* if len(self.causal_cached) > 0: cached = self.causal_cached.popleft()
PopCached(cached) == IF Len(cached) > 0 THEN Tail(cached) ELSE cached

\* The frames interpolated from the prepended cached frame are kept.
DropCachedNever(y, drop_cached) == y

\* if drop_cached: x = x[:, :, 2:]
DropCached(y, drop_cached) == IF drop_cached THEN Slice(y, 2, Len(y)) ELSE y

\* forward(x) up to the length-preserving conv: [out, cached, pop, cat], pop
\* being the entries taken from the cache and cat the tensor the edge slice and
\* the interpolation are taken from (x, with the cached frame prepended on a
\* cache hit).  An entry carries the frames of the cloned slice and the
\* top-level call that appended it.
Spatial2xTime2x3DUpsample(x, enabled, cached, depth, cid) ==
    IF Len(x) = 1
    THEN [out |-> x, cached |-> cached, pop |-> << >>, cat |-> x]
    ELSE IF enabled
         THEN LET drop_cached == Len(cached) > 0
                  x1 == IF drop_cached THEN Head(cached).frames \o x ELSE x
                  y  == InterpolateT2(x1)
              IN  [out    |-> DropCached(y, drop_cached),
                   cached |-> Append(PopCached(cached),
                                     [frames |-> EdgeSlice(x1, depth), call |-> cid]),
                   pop    |-> IF drop_cached THEN << Head(cached) >> ELSE << >>,
                   cat    |-> x1]
         ELSE [out    |-> << x[1] >> \o InterpolateT2(Tail(x)),
               cached |-> cached,
               pop    |-> << >>,
               cat    |-> x]

(***************************************************************************)
(* Decoder                                                                 *)
(***************************************************************************)

\* Depths of the Spatial2xTime2x3DUpsample stages Decoder.__init__ builds:
\* up2 always holds one (depth 0); up1 holds one (depth 1) in the 8x
\* configuration and the spatial-only Upsample in the 4x configuration.
Depths(rate) == IF rate = 4 THEN {0} ELSE {0, 1}

\* inverse_wavelet_transform_out on the time axis: the inverse 3D Haar
\* transform doubles the time axis; on the chunk that starts the sequence the
\* causal first frame stays single (n frames give 2n - 1), so that t latent
\* frames decode to (t - 1) * temporal_uptimes + 1 frames.
InverseHaarWaveletTransform3D(x, first) ==
    IF first
    THEN << x[1] >> \o InterpolateT2(Tail(x))
    ELSE InterpolateT2(x)

\* Decoder.forward(z) on the time axis: up2, up1, inverse wavelet.
\* [out, cached, pop, stage] with cached, pop and stage indexed by depth;
\* stage[d] is what the up-sampler of depth d received, what it interpolated
\* and what it returned.
Decoder(z, rate, first, enabled, cached, cid) ==
    LET s0 == Spatial2xTime2x3DUpsample(z, enabled[0], cached[0], 0, cid)
        s1 == IF 1 \in Depths(rate)
              THEN Spatial2xTime2x3DUpsample(s0.out, enabled[1], cached[1], 1, cid)
              ELSE [out |-> s0.out, cached |-> << >>, pop |-> << >>, cat |-> s0.out]
    IN  [out    |-> InverseHaarWaveletTransform3D(s1.out, first),
         cached |-> [d \in Depths(rate) |-> IF d = 0 THEN s0.cached ELSE s1.cached],
         pop    |-> [d \in Depths(rate) |-> IF d = 0 THEN s0.pop ELSE s1.pop],
         stage  |-> [d \in Depths(rate) |->
                        IF d = 0
                        THEN [in |-> z, cat |-> s0.cat, out |-> s0.out]
                        ELSE [in |-> s0.out, cat |-> s1.cat, out |-> s1.out]]]

\* The latent tensor of t frames: frame i stems from latent frame i.
Latent(t) == [i \in 1..t |-> i - 1]

(***************************************************************************)
(* WFVAEModel: helpers                                                     *)
(***************************************************************************)

\* The two networks whose modules carry the is_first_chunk flag.
Nets == {"encoder", "decoder"}

\* The deques are left as the previous call left them.
_empty_causal_cached_kept(parent, cached) == cached

\* _empty_causal_cached(parent): every module of parent that has a
\* causal_cached gets a fresh deque.  The Spatial2xTime2x3DUpsample stages all
\* live in the decoder.
_empty_causal_cached(parent, cached) ==
    [d \in DOMAIN cached |-> IF parent = "decoder" THEN << >> ELSE cached[d]]

\* The flag is not propagated to the modules.
_set_causal_cached_skipped(enabled, b) == enabled

\* _set_causal_cached(enable_cached): every module of the model that has the
\* attribute.
_set_causal_cached(enabled, b) == [d \in DOMAIN enabled |-> b]

\* The argument is ignored and the default True is written.
_set_first_chunk_default(flags, b) == [n \in DOMAIN flags |-> TRUE]

\* _set_first_chunk(is_first_chunk): every module of the model that has the
\* attribute, in the encoder and in the decoder alike.
_set_first_chunk(flags, b) == [n \in DOMAIN flags |-> b]

\* Only a longer input is rejected.
InconsistentTemporalSizeLonger(ts, t) == ts # None /\ ts # 0 /\ ts < t

\* if self.temporal_size and self.temporal_size != t: raise ValueError
InconsistentTemporalSize(ts, t) == ts # None /\ ts # 0 /\ ts # t

\* if self.temporal_size is None: self.temporal_size = t;
\* self._auto_select_t_chunk().  raised = the ValueError of the selection, which
\* leaves temporal_size assigned and both chunk sizes as they were.
Pin(ts, enc, dec, size, rate) ==
    IF ts = None
    THEN LET sel == _auto_select_t_chunk(size, rate)
         IN  IF sel.ok
             THEN [ts |-> size, enc |-> sel.enc, dec |-> sel.dec, raised |-> FALSE]
             ELSE [ts |-> size, enc |-> enc, dec |-> dec, raised |-> TRUE]
    ELSE [ts |-> ts, enc |-> enc, dec |-> dec, raised |-> FALSE]

\* t_upsampled = (t_latent - 1) * self.temporal_uptimes + 1
t_upsampled(t_latent, rate) == (t_latent - 1) * rate + 1

\* idx != 0 and end + 1 < t_latent
Overlap(i, end, t_latent) == i # 0 /\ end + 1 < t_latent

\* chunk = chunk[:, :, : -self.temporal_uptimes]
TrimOverlap(y, rate) == Slice(y, 0, Max(Len(y) - rate, 0))

\* Time length of the latent an encode of T frames returns: (T - 1) // rate + 1.
LatentLength(T, rate) == (T - 1) \div rate + 1

\* Number of entries held by all caches.
Held(cached) ==
    LET RECURSIVE Sum(_)
        Sum(S) == IF S = {} THEN 0
                  ELSE LET d == CHOOSE e \in S : TRUE
                       IN  Len(cached[d]) + Sum(S \ {d})
    IN  Sum(DOMAIN cached)

\* The record of pops after one decoder invocation by call cid.
Popped(old, pop, cid) ==
    [d \in DOMAIN old |->
        IF Len(pop[d]) > 0 THEN [call |-> pop[d][1].call, by |-> cid] ELSE old[d]]

(***************************************************************************)
(* WFVAEModel: state machine                                               *)
(***************************************************************************)

NoCall ==
    [id |-> 0, op |-> "none", size |-> 0, tiled |-> FALSE, pinned |-> None,
     left |-> 0, first |-> TRUE, fwd |-> FALSE]

NoInvoke ==
    [net |-> "none", call |-> 0, start |-> 0, end |-> 0, hi |-> 0, trim |-> 0,
     first |-> [n \in Nets |-> TRUE], len |-> 0, stage |-> << >>]

\* WFVAEModel.__init__ but for the two chunk sizes: tiling off, temporal_size
\* None, every up-sampler built with enable_cached=False and an empty deque.
Constructed ==
    /\ temporal_uptimes \in {4, 8}
    /\ use_tiling = FALSE
    /\ temporal_size = None
    /\ enable_cached = [d \in Depths(temporal_uptimes) |-> FALSE]
    /\ causal_cached = [d \in Depths(temporal_uptimes) |-> << >>]
    /\ is_first_chunk = [n \in Nets |-> TRUE]
    /\ pc = "idle"
    /\ x_len = 0
    /\ start_end = << >>
    /\ idx = 0
    /\ result = << >>
    /\ in_forward = FALSE
    /\ callId = 0
    /\ call = NoCall
    /\ outcome = "none"
    /\ invoked = NoInvoke
    /\ popped = [d \in Depths(temporal_uptimes) |-> [call |-> 0, by |-> 0]]
    /\ toggled = [done |-> FALSE, arg |-> FALSE]

\* No stand-alone function call is modelled.
NoArgs == [fn |-> "none"]

NoRet == [fn |-> "none"]

\* The model as constructed: t_chunk_enc = t_chunk_dec = None.
Init ==
    /\ Constructed
    /\ t_chunk_enc = None
    /\ t_chunk_dec = None
    /\ args = NoArgs
    /\ ret = NoRet

\* The call returns or raises: control goes back to the caller (forward's decode
\* after a successful encode, else the user).
Return(how, fwd) ==
    /\ outcome' = how
    /\ pc' = IF fwd /\ how = "ok" THEN "forward" ELSE "idle"
    /\ in_forward' = (fwd /\ how = "ok")

\* encode(x) for a tensor of T frames, up to the first encoder invocation of a
\* tiled call or to the return of a non-tiled one.  fwd: called by forward.
EncodeBody(T, fwd) ==
    LET cid   == callId + 1
        flags == _set_first_chunk(is_first_chunk, TRUE)
        pin   == Pin(temporal_size, t_chunk_enc, t_chunk_dec, T, temporal_uptimes)
    IN  /\ callId' = cid
        /\ call' = [id |-> cid, op |-> "encode", size |-> T, tiled |-> use_tiling,
                    pinned |-> temporal_size, left |-> Held(causal_cached),
                    first |-> \A n \in Nets : is_first_chunk[n],
                    fwd |-> fwd]
        /\ causal_cached' = _empty_causal_cached("encoder", causal_cached)
        /\ x_len' = T
        /\ result' = << >>
        /\ idx' = 0
        /\ UNCHANGED << args, ret, temporal_uptimes, use_tiling, enable_cached, popped, toggled >>
        /\ IF use_tiling
           THEN \* tile_encode, lines 527-539
                /\ temporal_size' = pin.ts
                /\ t_chunk_enc' = pin.enc
                /\ t_chunk_dec' = pin.dec
                /\ is_first_chunk' = flags
                /\ invoked' = invoked
                /\ IF pin.raised \/ InconsistentTemporalSize(pin.ts, T)
                   THEN start_end' = << >> /\ Return("ValueError", fwd)
                   ELSE IF ChunkTypeError(T, pin.enc)
                        THEN start_end' = << >> /\ Return("TypeError", fwd)
                        ELSE /\ start_end' = build_chunk_start_end(T, pin.enc)
                             /\ pc' = "tile_encode"
                             /\ outcome' = "running"
                             /\ in_forward' = fwd
           ELSE \* h, (l1, l2) = self.encoder(x)
                /\ is_first_chunk' = flags
                /\ invoked' = [net |-> "encoder", call |-> cid, start |-> 0, end |-> T,
                               hi |-> T, trim |-> 0, first |-> flags, len |-> T,
                               stage |-> << >>]
                /\ start_end' = << >>
                /\ Return("ok", fwd)
                /\ UNCHANGED << temporal_size, t_chunk_enc, t_chunk_dec >>

\* A user call of encode.
Encode(T) ==
    /\ pc = "idle"
    /\ callId < MaxCalls
    /\ EncodeBody(T, FALSE)

\* One iteration of the chunk loop of tile_encode; the last one returns.
TileEncodeChunk ==
    /\ pc = "tile_encode"
    /\ LET se    == start_end[idx + 1]
           flags == _set_first_chunk(is_first_chunk, idx = 0)
       IN  /\ is_first_chunk' = flags
           /\ invoked' = [net |-> "encoder", call |-> callId, start |-> se[1],
                          end |-> se[2], hi |-> se[2], trim |-> 0,
                          first |-> flags, len |-> se[2] - se[1], stage |-> << >>]
           /\ idx' = idx + 1
           /\ IF idx + 1 = Len(start_end)
              THEN Return("ok", in_forward)
              ELSE UNCHANGED << pc, outcome, in_forward >>
    /\ UNCHANGED << args, ret, temporal_uptimes, use_tiling, temporal_size, t_chunk_enc,
                    t_chunk_dec, enable_cached, causal_cached, x_len, start_end,
                    result, callId, call, popped, toggled >>

\* decode(z) for a latent of t frames, up to the first decoder invocation of a
\* tiled call or to the return of a non-tiled one.
DecodeBody(t) ==
    LET cid     == callId + 1
        flags   == _set_first_chunk(is_first_chunk, TRUE)
        cleared == _empty_causal_cached("decoder", causal_cached)
        size    == t_upsampled(t, temporal_uptimes)
        pin     == Pin(temporal_size, t_chunk_enc, t_chunk_dec, size, temporal_uptimes)
        d       == Decoder(Latent(t), temporal_uptimes, flags["decoder"],
                           enable_cached, cleared, cid)
    IN  /\ callId' = cid
        /\ call' = [id |-> cid, op |-> "decode", size |-> size, tiled |-> use_tiling,
                    pinned |-> temporal_size, left |-> Held(causal_cached),
                    first |-> \A n \in Nets : is_first_chunk[n],
                    fwd |-> in_forward]
        /\ x_len' = t
        /\ idx' = 0
        /\ is_first_chunk' = flags
        /\ UNCHANGED << args, ret, temporal_uptimes, use_tiling, enable_cached, toggled >>
        /\ IF use_tiling
           THEN \* tile_decode, lines 565-579
                /\ temporal_size' = pin.ts
                /\ t_chunk_enc' = pin.enc
                /\ t_chunk_dec' = pin.dec
                /\ causal_cached' = cleared
                /\ result' = << >>
                /\ UNCHANGED << invoked, popped >>
                /\ IF pin.raised \/ InconsistentTemporalSize(pin.ts, size)
                   THEN start_end' = << >> /\ Return("ValueError", FALSE)
                   ELSE IF ChunkTypeError(t, pin.dec)
                        THEN start_end' = << >> /\ Return("TypeError", FALSE)
                        ELSE /\ start_end' = build_chunk_start_end(t, pin.dec)
                             /\ pc' = "tile_decode"
                             /\ outcome' = "running"
                             /\ in_forward' = FALSE
           ELSE \* dec, (l1, l2) = self.decoder(z)
                /\ causal_cached' = d.cached
                /\ popped' = Popped(popped, d.pop, cid)
                /\ result' = d.out
                /\ invoked' = [net |-> "decoder", call |-> cid, start |-> 0, end |-> t,
                               hi |-> t, trim |-> 0, first |-> flags, len |-> t,
                               stage |-> d.stage]
                /\ start_end' = << >>
                /\ Return("ok", FALSE)
                /\ UNCHANGED << temporal_size, t_chunk_enc, t_chunk_dec >>

\* A user call of decode.
Decode(t) ==
    /\ pc = "idle"
    /\ callId < MaxCalls
    /\ DecodeBody(t)

\* One iteration of the chunk loop of tile_decode, lines 582-597; the last one
\* concatenates and returns.
TileDecodeChunk ==
    /\ pc = "tile_decode"
    /\ LET se      == start_end[idx + 1]
           flags   == _set_first_chunk(is_first_chunk, idx = 0)
           overlap == Overlap(idx, se[2], x_len)
           hi      == IF overlap THEN se[2] + 1 ELSE se[2]
           chunk   == Slice(Latent(x_len), se[1], hi)
           d       == Decoder(chunk, temporal_uptimes, flags["decoder"],
                              enable_cached, causal_cached, callId)
           out     == IF overlap THEN TrimOverlap(d.out, temporal_uptimes) ELSE d.out
       IN  /\ is_first_chunk' = flags
           /\ causal_cached' = d.cached
           /\ popped' = Popped(popped, d.pop, callId)
           /\ result' = result \o out
           /\ invoked' = [net |-> "decoder", call |-> callId, start |-> se[1],
                          end |-> se[2], hi |-> hi,
                          trim |-> Len(d.out) - Len(out),
                          first |-> flags, len |-> Len(chunk), stage |-> d.stage]
           /\ idx' = idx + 1
           /\ IF idx + 1 = Len(start_end)
              THEN Return("ok", FALSE)
              ELSE UNCHANGED << pc, outcome, in_forward >>
    /\ UNCHANGED << args, ret, temporal_uptimes, use_tiling, temporal_size, t_chunk_enc,
                    t_chunk_dec, enable_cached, x_len, start_end, callId, call, toggled >>

\* self.encoder(chunk) raises inside the chunk loop of tile_encode (a runtime
\* error of the network, such as running out of memory): the flag has been
\* written for this chunk and the error ends encode, and forward with it.
AbortEncode ==
    /\ pc = "tile_encode"
    /\ is_first_chunk' = _set_first_chunk(is_first_chunk, idx = 0)
    /\ Return("RuntimeError", FALSE)
    /\ UNCHANGED << args, ret, temporal_uptimes, use_tiling, temporal_size, t_chunk_enc,
                    t_chunk_dec, enable_cached, causal_cached, x_len, start_end,
                    idx, result, callId, call, invoked, popped, toggled >>

\* self.decoder(chunk) raises inside the chunk loop of tile_decode after the
\* up-samplers of depth < k have run: their caches keep what they appended.
AbortDecode(k) ==
    /\ pc = "tile_decode"
    /\ LET se      == start_end[idx + 1]
           flags   == _set_first_chunk(is_first_chunk, idx = 0)
           overlap == Overlap(idx, se[2], x_len)
           chunk   == Slice(Latent(x_len), se[1], IF overlap THEN se[2] + 1 ELSE se[2])
           d       == Decoder(chunk, temporal_uptimes, flags["decoder"],
                              enable_cached, causal_cached, callId)
           ran     == [e \in DOMAIN causal_cached |-> e < k]
       IN  /\ is_first_chunk' = flags
           /\ causal_cached' = [e \in DOMAIN causal_cached |->
                                   IF ran[e] THEN d.cached[e] ELSE causal_cached[e]]
           /\ popped' = Popped(popped,
                               [e \in DOMAIN causal_cached |->
                                   IF ran[e] THEN d.pop[e] ELSE << >>],
                               callId)
    /\ Return("RuntimeError", FALSE)
    /\ UNCHANGED << args, ret, temporal_uptimes, use_tiling, temporal_size, t_chunk_enc,
                    t_chunk_dec, enable_cached, x_len, start_end, idx, result,
                    callId, call, invoked, toggled >>

\* forward(input): encode(input) ...
Forward(T) ==
    /\ pc = "idle"
    /\ callId + 1 < MaxCalls
    /\ EncodeBody(T, TRUE)

\* ... then decode(z) on the latent the encode returned.
ForwardDecode ==
    /\ pc = "forward"
    /\ DecodeBody(LatentLength(x_len, temporal_uptimes))

\* enable_tiling(use_tiling)
enable_tiling(b) ==
    /\ pc = "idle"
    /\ use_tiling' = b
    /\ enable_cached' = _set_causal_cached(enable_cached, b)
    /\ toggled' = [done |-> TRUE, arg |-> b]
    /\ UNCHANGED << args, ret, temporal_uptimes, temporal_size, t_chunk_enc, t_chunk_dec,
                    causal_cached, is_first_chunk, pc, x_len, start_end, idx,
                    result, in_forward, callId, call, outcome, invoked, popped >>

\* disable_tiling()
disable_tiling == enable_tiling(FALSE)

Next ==
    \/ \E T \in 1..MaxT : Encode(T)
    \/ \E t \in 1..MaxLatent : Decode(t)
    \/ \E T \in 1..MaxT : Forward(T)
    \/ ForwardDecode
    \/ TileEncodeChunk
    \/ TileDecodeChunk
    \/ AbortEncode
    \/ \E k \in 0..2 : AbortDecode(k)
    \/ \E b \in BOOLEAN : enable_tiling(b)
    \/ disable_tiling

Spec == Init /\ [][Next]_vars

(***************************************************************************)
(* build_chunk_start_end called directly, the chunk sizes set by hand      *)
(***************************************************************************)

InitChunk ==
    /\ Constructed
    /\ t_chunk_enc \in 1..MaxChunk
    /\ t_chunk_dec \in 1..MaxChunk
    /\ args = NoArgs
    /\ ret = NoRet

\* start_end = self.build_chunk_start_end(t, decoder_mode)
BuildChunk(t, decoder_mode) ==
    /\ start_end' = build_chunk_start_end(t, IF decoder_mode THEN t_chunk_dec
                                                            ELSE t_chunk_enc)
    /\ x_len' = t
    /\ pc' = IF decoder_mode THEN "built_dec" ELSE "built_enc"
    /\ UNCHANGED << args, ret, temporal_uptimes, use_tiling, temporal_size, t_chunk_enc,
                    t_chunk_dec, enable_cached, causal_cached, is_first_chunk,
                    idx, result, in_forward, callId, call, outcome, invoked,
                    popped, toggled >>

NextChunk == \E t \in 1..MaxT : \E decoder_mode \in BOOLEAN : BuildChunk(t, decoder_mode)

SpecChunk == InitChunk /\ [][NextChunk]_vars

(***************************************************************************)
(* Properties                                                              *)
(***************************************************************************)

\* decode(z) with use_tiling=False on a freshly built model: the single-shot
\* output for a latent of t frames.
SingleShot(t, rate) ==
    Decoder(Latent(t), rate, TRUE, [d \in Depths(rate) |-> FALSE],
            [d \in Depths(rate) |-> << >>], 0).out

\* C1: a tiled decode that returns has produced exactly
\* (t_latent - 1) * temporal_uptimes + 1 frames, and with nearest temporal
\* interpolation each of them stems from the same latent frame as the frame at
\* the same position of the single-shot decode.
C1_TiledDecodeMatchesSingleShot ==
    (call.op = "decode" /\ call.tiled /\ outcome = "ok") =>
        /\ Len(result) = (x_len - 1) * temporal_uptimes + 1
        /\ result = SingleShot(x_len, temporal_uptimes)

\* A tiled 8x decode of at least three chunks has returned, its last chunk
\* having hit the cache of both up-samplers.
C1_Witness ==
    /\ call.op = "decode" /\ call.tiled /\ outcome = "ok"
    /\ temporal_uptimes = 8
    /\ Len(start_end) >= 3
    /\ \A d \in DOMAIN popped : popped[d].by = callId

\* C6: in tile_decode every chunk after the first with a latent frame beyond
\* its end is decoded from [start, end + 1) and loses exactly temporal_uptimes
\* trailing frames; every other chunk after the first is decoded from
\* [start, end) and loses none.
C6_OverlapIffTrim ==
    (invoked.net = "decoder" /\ invoked.call = callId /\ invoked.start # 0) =>
        IF invoked.end < x_len
        THEN invoked.hi = invoked.end + 1 /\ invoked.trim = temporal_uptimes
        ELSE invoked.hi = invoked.end /\ invoked.trim = 0

\* A non-final chunk after the first has been decoded with the overlap frame
\* and trimmed.
C6_Witness ==
    /\ invoked.net = "decoder" /\ invoked.call = callId /\ invoked.start # 0
    /\ invoked.end < x_len
    /\ invoked.hi = invoked.end + 1
    /\ invoked.trim = temporal_uptimes

\* C7: every cache entry a module pops was appended during the same top-level
\* call.
C7_PopWithinCall == \A d \in DOMAIN popped : popped[d].call = popped[d].by

\* A module has popped an entry during a top-level call that found entries of an
\* earlier call in the caches when it started.
C7_Witness ==
    /\ call.left > 0
    /\ \E d \in DOMAIN popped : popped[d].by = call.id

\* C8: every cache holds at most one entry; a decoder invocation inside the
\* chunk loop leaves every cache untouched on a single-frame chunk or with
\* enable_cached off, and otherwise pops at most one entry and appends one; the
\* start of a decode empties every cache.
C8_CacheAtMostOne ==
    /\ [](\A d \in DOMAIN causal_cached : Len(causal_cached[d]) <= 1)
    /\ [][ /\ (pc = "tile_decode" /\ idx' = idx + 1) =>
                \A d \in DOMAIN causal_cached :
                    IF invoked'.len = 1 \/ ~enable_cached[d]
                    THEN causal_cached'[d] = causal_cached[d]
                    ELSE Len(causal_cached'[d])
                             = Max(Len(causal_cached[d]) - 1, 0) + 1
           /\ (callId' # callId /\ call'.op = "decode" /\ ~(pc' = "tile_decode")
                  /\ ~call'.tiled) =>
                \A d \in DOMAIN causal_cached : causal_cached'[d] = << >>
           /\ (callId' # callId /\ call'.op = "decode" /\ call'.tiled) =>
                \A d \in DOMAIN causal_cached : causal_cached'[d] = << >>
         ]_vars

\* A cache holds one entry after a chunk that popped one and appended one.
C8_Witness ==
    /\ pc = "tile_decode"
    /\ \E d \in DOMAIN causal_cached :
          Len(causal_cached[d]) = 1 /\ popped[d].by = callId

\* C9: every module exposing enable_cached carries the model's use_tiling, which
\* is False until the first toggle and the argument of the last toggle after it;
\* a toggle changes neither the three pinned fields nor any cache.
C9_CachedFollowsTiling ==
    /\ [](/\ \A d \in DOMAIN enable_cached : enable_cached[d] = use_tiling
          /\ use_tiling = (toggled.done /\ toggled.arg))
    /\ [][ (pc = "idle" /\ callId' = callId) =>
              /\ temporal_size' = temporal_size
              /\ t_chunk_enc' = t_chunk_enc
              /\ t_chunk_dec' = t_chunk_dec
              /\ causal_cached' = causal_cached ]_vars

\* Tiling has been switched off again after a tiled decode pinned the model and
\* left an entry in a cache.
C9_Witness ==
    /\ toggled.done /\ ~toggled.arg
    /\ ~use_tiling
    /\ temporal_size # None
    /\ \E d \in DOMAIN causal_cached : Len(causal_cached[d]) = 1

\* C10: at every encoder or decoder invocation the is_first_chunk flag of every
\* module is true exactly when the chunk starts at time index 0.
C10_FirstChunkFlag ==
    invoked.net # "none" =>
        \A n \in Nets : invoked.first[n] = (invoked.start = 0)

\* A call that found the flag false (left by an earlier tiled call) has made its
\* first invocation with the flag true.
C10_Witness ==
    /\ ~call.first
    /\ invoked.call = call.id
    /\ invoked.start = 0
    /\ \A n \in Nets : invoked.first[n]

\* C2: for t >= 1 and a chunk size c >= 1 the schedule starts with [0, 1], its
\* ranges are non-empty and contiguous and end at t, and every range after the
\* first has length c but the last, which is at most c; t = 17 with
\* t_chunk_enc = 4 gives [[0,1],[1,5],[5,9],[9,13],[13,17]] and t = 5 with
\* t_chunk_dec = 2 in decoder mode gives [[0,1],[1,3],[3,5]].
C2_ChunkSchedule ==
    (pc \in {"built_enc", "built_dec"}) =>
        LET c  == IF pc = "built_dec" THEN t_chunk_dec ELSE t_chunk_enc
            se == start_end
            n  == Len(start_end)
        IN  /\ n >= 1
            /\ se[1] = << 0, 1 >>
            /\ \A i \in 1..n : se[i][1] < se[i][2]
            /\ \A i \in 1..(n - 1) : se[i + 1][1] = se[i][2]
            /\ se[n][2] = x_len
            /\ \A i \in 2..(n - 1) : se[i][2] - se[i][1] = c
            /\ n >= 2 => se[n][2] - se[n][1] <= c
            /\ (pc = "built_enc" /\ x_len = 17 /\ c = 4) =>
                  se = << << 0, 1 >>, << 1, 5 >>, << 5, 9 >>, << 9, 13 >>, << 13, 17 >> >>
            /\ (pc = "built_dec" /\ x_len = 5 /\ c = 2) =>
                  se = << << 0, 1 >>, << 1, 3 >>, << 3, 5 >> >>

\* A schedule whose last range is clipped to t has been built.
C2_Witness ==
    /\ pc = "built_enc"
    /\ x_len = 16
    /\ t_chunk_enc = 4
    /\ start_end = << << 0, 1 >>, << 1, 5 >>, << 5, 9 >>, << 9, 13 >>, << 13, 16 >> >>

\* C3: once set, temporal_size, t_chunk_enc and t_chunk_dec never change, and
\* every tiled encode or decode whose length (T, or
\* (t_latent - 1) * temporal_uptimes + 1) differs from the temporal_size already
\* set raises ValueError.
C3_PinnedTemporalSize ==
    [][ /\ (temporal_size # None => temporal_size' = temporal_size)
        /\ (t_chunk_enc # None => t_chunk_enc' = t_chunk_enc)
        /\ (t_chunk_dec # None => t_chunk_dec' = t_chunk_dec)
        /\ (callId' # callId /\ use_tiling /\ temporal_size # None
               /\ call'.size # temporal_size) =>
              (outcome' = "ValueError" /\ pc' = "idle")
      ]_vars

\* A tiled call on a pinned model was given another length and raised
\* ValueError.
C3_Witness ==
    /\ call.tiled
    /\ call.pinned # None
    /\ call.size # call.pinned
    /\ temporal_size = call.pinned
    /\ t_chunk_enc # None
    /\ outcome = "ValueError"

\* C4: the chunk sizes _auto_select_t_chunk assigned for temporal_size T satisfy
\* every condition the search tests: (T_list[-1] - 1) mod t_chunk_dec # 1, and
\* for every L in T_list[:-1], L - 1 is even and not ((L - 1) mod t_chunk_enc = 1
\* with (L - 1) / t_chunk_enc > 1).
C4_SelectedChunksAligned ==
    t_chunk_enc # None =>
        LET tl == T_list(temporal_size, Log2(temporal_uptimes))
        IN  /\ (Last(tl) - 1) % t_chunk_dec # 1
            /\ \A i \in 1..(Len(tl) - 1) :
                  /\ (tl[i] - 1) % 2 = 0
                  /\ ~((tl[i] - 1) % t_chunk_enc = 1 /\ (tl[i] - 1) > t_chunk_enc)

\* C5: the tiled call that ran the selection for temporal_size T either raised
\* ValueError with both chunk sizes unassigned, or assigned a pair with
\* t_chunk_enc < T and t_chunk_dec < T.
C5_SelectionFailsOrBelowLength ==
    (call.tiled /\ call.pinned = None /\ call.id = callId) =>
        IF t_chunk_enc = None
        THEN t_chunk_dec = None /\ outcome = "ValueError"
        ELSE t_chunk_enc < temporal_size /\ t_chunk_dec < temporal_size

\* C15: in a tiled decode, after every non-final chunk that carries the
\* one-frame latent overlap, the frame the up-sampler of depth d holds in its
\* cache is the frame 2**d + 1 positions from the end of the tensor it
\* interpolated, it stems from the last latent frame before the overlap frame
\* and every frame after it stems from the overlap frame; the stage returned 2
\* frames per input frame; and for the next chunk the same stage receives an
\* input that starts with the overlap latent frame, prepends the cached frame
\* and again returns 2 frames per input frame.
C15_EdgeFrameAligned ==
    [][ (/\ pc = "tile_decode"
         /\ invoked.net = "decoder"
         /\ invoked.call = callId
         /\ invoked.hi = invoked.end + 1) =>
            \A d \in Depths(temporal_uptimes) :
               LET st == invoked.stage[d]
                   n  == Len(st.cat)
                   k  == Pow2(d)
               IN  /\ Len(causal_cached[d]) = 1
                   /\ n > k
                   /\ causal_cached[d][1].frames = << st.cat[n - k] >>
                   /\ st.cat[n - k] = invoked.end - 1
                   /\ \A j \in (n - k + 1)..n : st.cat[j] = invoked.end
                   /\ Len(st.out) = 2 * Len(st.in)
                   /\ (idx' = idx + 1) =>
                         LET nx == invoked'.stage[d]
                         IN  /\ nx.in[1] = invoked.end
                             /\ nx.cat = causal_cached[d][1].frames \o nx.in
                             /\ Len(nx.out) = 2 * Len(nx.in)
      ]_vars

\* In the 8x configuration a chunk with the overlap has run on a cache hit at
\* both depths: each stage prepended the frame the chunk before left.
C15_Witness ==
    /\ pc = "tile_decode"
    /\ temporal_uptimes = 8
    /\ invoked.net = "decoder"
    /\ invoked.call = callId
    /\ invoked.hi = invoked.end + 1
    /\ invoked.start > 1
    /\ \A d \in Depths(temporal_uptimes) :
          Len(invoked.stage[d].cat) = Len(invoked.stage[d].in) + 1

\* C16: between top-level calls temporal_size is set if and only if both
\* t_chunk_enc and t_chunk_dec are set, and no call has run
\* build_chunk_start_end with an unset chunk size (the TypeError of
\* min(start + None, t)).
C16_LazyFieldsSetTogether ==
    pc = "idle" =>
        /\ (temporal_size # None) <=> (t_chunk_enc # None /\ t_chunk_dec # None)
        /\ outcome # "TypeError"

\* C17: in a tiled decode no chunk after chunk 0 hands the decoder a one-frame
\* slice, so only chunk 0 reaches an up-sampler with a single time step, and no
\* chunk of the schedule but the last ends one frame before t_latent.
C17_NoSingleFrameLaterChunk ==
    /\ (/\ invoked.net = "decoder"
        /\ invoked.call = callId
        /\ call.op = "decode"
        /\ call.tiled
        /\ invoked.start # 0) =>
           /\ invoked.len >= 2
           /\ \A d \in Depths(temporal_uptimes) : Len(invoked.stage[d].in) >= 2
    /\ pc = "tile_decode" =>
           \A i \in 1..(Len(start_end) - 1) : start_end[i][2] + 1 # x_len

\* A decode of 4 latent frames ran with t_chunk_dec doubled to 4: its second
\* and last chunk held 3 frames.
C17_Witness ==
    /\ call.op = "decode"
    /\ call.tiled
    /\ outcome = "ok"
    /\ x_len = 4
    /\ t_chunk_dec = 4
    /\ invoked.net = "decoder"
    /\ invoked.call = callId
    /\ invoked.start = 1
    /\ invoked.len = 3

\* C18: for every length T that was set as temporal_size, the last entry of
\* T_list is (T - 1) // r + 1; for a decode of t latent frames T_list of
\* (t - 1) * r + 1 ends in t; for every encoded length T,
\* (((T - 1) // r + 1) - 1) * r + 1 = T exactly when T = 1 mod r; and the tiled
\* decode that forward runs on the latent of a tiled encode of length T raises
\* the temporal-size ValueError exactly when T # 1 mod r.
C18_LengthRoundTrip ==
    LET r == temporal_uptimes
    IN  /\ temporal_size # None =>
              Last(T_list(temporal_size, Log2(r))) = (temporal_size - 1) \div r + 1
        /\ call.op = "decode" =>
              /\ call.size = (x_len - 1) * r + 1
              /\ Last(T_list(call.size, Log2(r))) = x_len
        /\ call.op = "encode" =>
              ((((call.size - 1) \div r + 1) - 1) * r + 1 = call.size
                  <=> call.size % r = 1)
        /\ (call.op = "decode" /\ call.fwd /\ call.tiled) =>
              (outcome # "ValueError" <=> call.pinned % r = 1)

\* forward ran tiled on more than one frame and its decode passed the
\* temporal-size check and returned.
C18_Witness ==
    /\ call.op = "decode"
    /\ call.fwd
    /\ call.tiled
    /\ call.pinned > 1
    /\ call.pinned % temporal_uptimes = 1
    /\ outcome = "ok"

(***************************************************************************)
(* Temporal resampling blocks on frame values                              *)
(*                                                                         *)
(* Here a frame is a number (one pixel of the frame) and a tensor is the   *)
(* sequence of its frames.  Averages and linear blends are kept exact by   *)
(* scaling: TimeDownsample2x returns kernel_size times the pooled average, *)
(* the up-samplers return 4 times each output frame.                       *)
(***************************************************************************)

\* Largest number of frames of a tensor handed to a resampling block.
MaxFrames == 4

\* The values a frame takes.
FrameValues == {0, 1}

\* TimeDownsample2x.__init__: kernel_size: int = 3
kernel_size == 3

\* p[a] + ... + p[a + k - 1]
RECURSIVE SumWindow(_, _, _)
SumWindow(p, a, k) == IF k = 0 THEN 0 ELSE p[a] + SumWindow(p, a + 1, k - 1)

\* The kernel_size - 1 frames of padding are copies of the last frame and
\* follow x.
TimeDownsample2x_pad_end(x) ==
    LET last_frame_pad == [i \in 1..(kernel_size - 1) |-> x[Len(x)]]
        p == x \o last_frame_pad
        n == (Len(p) - kernel_size) \div 2 + 1
    IN  [j \in 1..n |-> SumWindow(p, 2 * j - 1, kernel_size)]

\* TimeDownsample2x.forward: kernel_size - 1 copies of the first frame are put
\* in front of x, then AvgPool3d((kernel_size, 1, 1), stride=(2, 1, 1)): output
\* frame j (0-based) averages padded frames 2j .. 2j + kernel_size - 1.
TimeDownsample2x(x) ==
    LET first_frame_pad == [i \in 1..(kernel_size - 1) |-> x[1]]
        p == first_frame_pad \o x
        n == (Len(p) - kernel_size) \div 2 + 1
    IN  [j \in 1..n |-> SumWindow(p, 2 * j - 1, kernel_size)]

\* A tensor in quarters.
Scale4(x) == [j \in 1..Len(x) |-> 4 * x[j]]

\* F.interpolate(x, scale_factor=(2, 1, 1), mode="trilinear") on the time axis
\* (align_corners=False): output frame i (0-based) samples the position
\* max((i + 0.5) / 2 - 0.5, 0) and blends the frame below it with the frame
\* above it, the latter clamped to the last frame.
TrilinearT2(x) ==
    LET m       == Len(x)
        src4(i) == Max(2 * i - 1, 0)
        lo(i)   == src4(i) \div 4
        hi(i)   == Min(lo(i) + 1, m - 1)
        lam4(i) == src4(i) % 4
    IN  [j \in 1..(2 * m) |->
            (4 - lam4(j - 1)) * x[lo(j - 1) + 1] + lam4(j - 1) * x[hi(j - 1) + 1]]

\* F.interpolate(x, scale_factor=(2, 1, 1), mode=self.t_interpolation)
Interpolate(x, t_interpolation) ==
    IF t_interpolation = "nearest" THEN Scale4(InterpolateT2(x)) ELSE TrilinearT2(x)

\* TimeUpsample2x.forward: with more than one frame the first frame is kept and
\* the others are interpolated.
TimeUpsample2x(x) ==
    IF Len(x) > 1
    THEN Scale4(<< x[1] >>) \o TrilinearT2(Tail(x))
    ELSE Scale4(x)

\* Spatial2xTime2x3DUpsample.forward with enable_cached False, up to the conv:
\* a single frame is returned as it is; else the first frame is kept and the
\* others are interpolated.
TemporalInterpolation(x, t_interpolation) ==
    IF Len(x) = 1
    THEN Scale4(x)
    ELSE Scale4(<< x[1] >>) \o Interpolate(Tail(x), t_interpolation)

\* The block named block applied to x.
Resample(block, t_interpolation, x) ==
    CASE block = "TimeDownsample2x" -> TimeDownsample2x(x)
      [] block = "TimeUpsample2x" -> TimeUpsample2x(x)
      [] block = "Spatial2xTime2x3DUpsample" -> TemporalInterpolation(x, t_interpolation)

\* Two tensors of the same length are drawn for one block.
InitResample ==
    /\ Constructed
    /\ t_chunk_enc = None
    /\ t_chunk_dec = None
    /\ \E block \in {"TimeDownsample2x", "TimeUpsample2x", "Spatial2xTime2x3DUpsample"} :
       \E mode \in IF block = "Spatial2xTime2x3DUpsample"
                   THEN {"nearest", "trilinear"}
                   ELSE {"none"} :
       \E n \in 1..MaxFrames :
       \E x \in [1..n -> FrameValues] :
       \E y \in [1..n -> FrameValues] :
          args = [fn |-> "resample", block |-> block, mode |-> mode, x |-> x, y |-> y]
    /\ ret = NoRet

\* The block runs on each of the two tensors.
ApplyResample ==
    /\ args.fn = "resample"
    /\ ret = NoRet
    /\ ret' = [fn    |-> "resample",
               out_x |-> Resample(args.block, args.mode, args.x),
               out_y |-> Resample(args.block, args.mode, args.y)]
    /\ UNCHANGED << wfvae, args >>

NextResample == ApplyResample

SpecResample == InitResample /\ [][NextResample]_vars

\* C11: for each of TimeDownsample2x, TimeUpsample2x and the temporal
\* interpolation of the non-cached Spatial2xTime2x3DUpsample, two inputs of
\* length n that agree on frames 0..t0 (t0 < n) give the same output frame t0.
C11_CausalSameIndex ==
    ret.fn = "resample" =>
        \A t0 \in 0..(Len(args.x) - 1) :
            (/\ t0 < Len(ret.out_x)
             /\ \A i \in 0..t0 : args.x[i + 1] = args.y[i + 1]) =>
                ret.out_x[t0 + 1] = ret.out_y[t0 + 1]

\* C11 (amended): the two up-samplers are causal index for index as stated;
\* output frame t0 of TimeDownsample2x is the same for two inputs that agree on
\* frames 0..2*t0.
C11_CausalResampling ==
    ret.fn = "resample" =>
        \A t0 \in 0..(Len(ret.out_x) - 1) :
            LET upto == IF args.block = "TimeDownsample2x" THEN 2 * t0 ELSE t0
            IN  (\A i \in 0..Min(upto, Len(args.x) - 1) : args.x[i + 1] = args.y[i + 1]) =>
                    ret.out_x[t0 + 1] = ret.out_y[t0 + 1]

\* TimeDownsample2x ran on two four-frame inputs that agree on frames 0..2 and
\* differ on frame 3: both outputs have the same frame 1.
C11_Witness ==
    /\ ret.fn = "resample"
    /\ args.block = "TimeDownsample2x"
    /\ Len(args.x) = 4
    /\ \A i \in 1..3 : args.x[i] = args.y[i]
    /\ args.x[4] # args.y[4]
    /\ args.x[3] # args.x[2]
    /\ Len(ret.out_x) = 2
    /\ ret.out_x[2] = ret.out_y[2]

(***************************************************************************)
(* read_video (causalvideovae/utils/video_utils.py)                        *)
(***************************************************************************)

\* Largest len(decord_vr) of a video file.
MaxTotalFrames == 9
\* Largest num_frames asked for.
MaxNumFrames == 4
\* Largest sample_rate asked for.
MaxSampleRate == 3

\* np.linspace(start, stop, num, dtype=int) for 0 <= start <= stop: num evenly
\* spaced values from start to stop, both included, truncated to integers; no
\* value for num = 0 and start alone for num = 1.
linspace(start, stop, num) ==
    IF num = 0
    THEN << >>
    ELSE IF num = 1
         THEN << start >>
         ELSE [i \in 1..num |-> start + ((i - 1) * (stop - start)) \div (num - 1)]

\* The frame list runs up to e instead of e - 1.
read_video_upto_e(total_frames, num_frames, sample_rate) ==
    LET sample_frames_len == sample_rate * num_frames
    IN  IF total_frames > sample_frames_len
        THEN linspace(0, sample_frames_len, num_frames)
        ELSE linspace(0, total_frames,
                      (total_frames * num_frames) \div sample_frames_len)

\* read_video: frame_id_list for a file of total_frames frames.
\* int(total_frames / sample_frames_len * num_frames) is taken in exact
\* arithmetic.
read_video(total_frames, num_frames, sample_rate) ==
    LET sample_frames_len == sample_rate * num_frames
    IN  IF total_frames > sample_frames_len
        THEN LET s == 0
                 e == s + sample_frames_len
             IN  linspace(s, e - 1, num_frames)
        ELSE LET s == 0
                 e == total_frames
             IN  linspace(s, e - 1,
                          (total_frames * num_frames) \div sample_frames_len)

\* A file length, a frame count and a sampling rate are drawn.
InitRead ==
    /\ Constructed
    /\ t_chunk_enc = None
    /\ t_chunk_dec = None
    /\ \E total_frames \in 1..MaxTotalFrames :
       \E num_frames \in 1..MaxNumFrames :
       \E sample_rate \in 1..MaxSampleRate :
          args = [fn |-> "read_video", total_frames |-> total_frames,
                  num_frames |-> num_frames, sample_rate |-> sample_rate]
    /\ ret = NoRet

\* read_video(video_path, num_frames, sample_rate) up to get_batch.
ApplyReadVideo ==
    /\ args.fn = "read_video"
    /\ ret = NoRet
    /\ ret' = [fn |-> "read_video",
               frame_id_list |-> read_video(args.total_frames, args.num_frames,
                                            args.sample_rate)]
    /\ UNCHANGED << wfvae, args >>

NextRead == ApplyReadVideo

SpecRead == InitRead /\ [][NextRead]_vars

MaxIgnore == 2

Tensor(key, saved_in) ==
    [key |-> key, kind |-> "tensor", value |-> saved_in, sub |-> << >>]

Dict(key, sub) ==
    [key |-> key, kind |-> "dict", value |-> "dict", sub |-> sub]

\* key in sd
Has(sd, key) == \E i \in 1..Len(sd) : sd[i].key = key

\* sd[key], a nested mapping
Get(sd, key) == sd[CHOOSE i \in 1..Len(sd) : sd[i].key = key].sub

\* list(sd.keys())
Keys(sd) == [i \in 1..Len(sd) |-> sd[i].key]

\* del sd[k]
Del(sd, k) == SelectSeq(sd, LAMBDA e : e.key # k)

\* k.startswith(ik)
StartsWith(k, ik) == Len(ik) <= Len(k) /\ SubSeq(k, 1, Len(ik)) = ik

\* key.replace("module.", ""): every occurrence is removed, left to right.
RECURSIVE ReplaceModule(_)
ReplaceModule(key) ==
    IF Len(key) = 0
    THEN << >>
    ELSE IF Len(key) >= 2 /\ key[1] = "module" /\ key[2] = "."
         THEN ReplaceModule(SubSeq(key, 3, Len(key)))
         ELSE << key[1] >> \o ReplaceModule(Tail(key))

\* {key.replace("module.", ""): value for key, value in sd.items()} from entry
\* i on: a key that is already there keeps its place and takes the new value.
RECURSIVE Renamed(_, _, _)
Renamed(sd, i, acc) ==
    IF i > Len(sd)
    THEN acc
    ELSE LET key == ReplaceModule(sd[i].key)
             e   == [sd[i] EXCEPT !.key = key]
         IN  IF Has(acc, key)
             THEN Renamed(sd, i + 1,
                          [n \in 1..Len(acc) |-> IF acc[n].key = key THEN e ELSE acc[n]])
             ELSE Renamed(sd, i + 1, Append(acc, e))

\* The default 0 handed to os.environ.get.
Int0 == [type |-> "int", repr |-> "0"]

\* os.environ.get("NOT_USE_EMA_MODEL", default): the string the variable is set
\* to, or the default.
EnvironGet(env, default) ==
    IF env.set THEN [type |-> "str", repr |-> env.value] ELSE default

\* a == b of Python for an int or a str on either side: a str never equals an
\* int.
PyEq(a, b) == a.type = b.type /\ a.repr = b.repr

\* The variable is read as a number: "0" counts as 0.
UseEmaParsed(sd, env) ==
    /\ Has(sd, << "ema_state_dict" >>)
    /\ Len(Get(sd, << "ema_state_dict" >>)) > 0
    /\ (~env.set \/ env.value = "0")

\* The condition of the if, lines 641-645.
UseEma(sd, env) ==
    /\ Has(sd, << "ema_state_dict" >>)
    /\ Len(Get(sd, << "ema_state_dict" >>)) > 0
    /\ PyEq(EnvironGet(env, Int0), Int0)

\* The mapping sd is bound to when the key loop starts, lines 641-654.
SelectStateDict(sd, env) ==
    IF UseEma(sd, env)
    THEN Renamed(Get(sd, << "ema_state_dict" >>), 1, << >>)
    ELSE IF Has(sd, << "state_dict" >>)
         THEN IF Has(Get(sd, << "state_dict" >>), << "gen_model" >>)
              THEN Get(Get(sd, << "state_dict" >>), << "gen_model" >>)
              ELSE Get(sd, << "state_dict" >>)
         ELSE sd

\* for k in keys: for ik in ignore_keys: if k.startswith(ik): del sd[k], from
\* key i and prefix j on.  del of a key that is no longer there raises
\* KeyError.
RECURSIVE DeleteLoop(_, _, _, _, _)
DeleteLoop(sd, keys, i, j, ignore_keys) ==
    IF i > Len(keys)
    THEN [error |-> "none", sd |-> sd]
    ELSE IF j > Len(ignore_keys)
         THEN DeleteLoop(sd, keys, i + 1, 1, ignore_keys)
         ELSE IF StartsWith(keys[i], ignore_keys[j])
              THEN IF Has(sd, keys[i])
                   THEN DeleteLoop(Del(sd, keys[i]), keys, i, j + 1, ignore_keys)
                   ELSE [error |-> "KeyError", sd |-> sd]
              ELSE DeleteLoop(sd, keys, i, j + 1, ignore_keys)

\* init_from_ckpt(path, ignore_keys) on the mapping torch.load returned:
\* selected is the mapping the key loop starts from, loaded the one handed to
\* load_state_dict(sd, strict=False) unless the loop raised.
init_from_ckpt(sd, env, ignore_keys) ==
    LET selected == SelectStateDict(sd, env)
        deleted  == DeleteLoop(selected, Keys(selected), 1, 1, ignore_keys)
    IN  [fn       |-> "init_from_ckpt",
         selected |-> selected,
         error    |-> deleted.error,
         loaded   |-> IF deleted.error = "none" THEN deleted.sd ELSE << >>]

\* The mappings a checkpoint file is put together from.
EncoderWeight == << "encoder", ".", "weight" >>

LossWeight == << "loss", ".", "weight" >>

EmaWeights ==
    << Tensor(<< "module", "." >> \o EncoderWeight, "ema_state_dict"),
       Tensor(<< "module", "." >> \o LossWeight, "ema_state_dict"),
       Tensor(<< "module", ".", "loss", ".", "module", ".", "bias" >>, "ema_state_dict") >>

GenModel == << Tensor(EncoderWeight, "gen_model"), Tensor(LossWeight, "gen_model") >>

StateDictFlat == << Tensor(EncoderWeight, "state_dict"), Tensor(LossWeight, "state_dict") >>

StateDictNested ==
    << Dict(<< "gen_model" >>, GenModel),
       Dict(<< "dics_model" >>, << Tensor(LossWeight, "dics_model") >>) >>

TopWeights == << Tensor(EncoderWeight, "top"), Tensor(LossWeight, "top") >>

\* The mapping torch.load returns for a file saved with or without weights at
\* the top level, an ema_state_dict entry and a state_dict entry.
Checkpoint(top, ema, state) ==
    (IF top THEN TopWeights ELSE << >>)
    \o (CASE ema = "missing" -> << >>
          [] ema = "empty" -> << Dict(<< "ema_state_dict" >>, << >>) >>
          [] ema = "weights" -> << Dict(<< "ema_state_dict" >>, EmaWeights) >>)
    \o (CASE state = "missing" -> << >>
          [] state = "flat" -> << Dict(<< "state_dict" >>, StateDictFlat) >>
          [] state = "gen_model" -> << Dict(<< "state_dict" >>, StateDictNested) >>)

\* The prefixes ignore_keys is made of.
IgnorePrefixes == { << "loss" >>, << "loss", "." >>, << "encoder" >> }

\* Lists of up to n prefixes, duplicates included.
RECURSIVE IgnoreLists(_)
IgnoreLists(n) ==
    IF n = 0
    THEN { << >> }
    ELSE LET shorter == IgnoreLists(n - 1)
         IN  shorter \cup { Append(l, p) : l \in shorter, p \in IgnorePrefixes }

\* A checkpoint file, an environment and an ignore_keys list are drawn.
InitCkpt ==
    /\ Constructed
    /\ t_chunk_enc = None
    /\ t_chunk_dec = None
    /\ \E top \in BOOLEAN :
       \E ema \in {"missing", "empty", "weights"} :
       \E state \in {"missing", "flat", "gen_model"} :
       \E env \in { [set |-> FALSE, value |-> ""], [set |-> TRUE, value |-> ""],
                    [set |-> TRUE, value |-> "0"], [set |-> TRUE, value |-> "1"] } :
       \E ignore_keys \in IgnoreLists(MaxIgnore) :
          args = [fn |-> "init_from_ckpt", top |-> top, ema |-> ema, state |-> state,
                  sd |-> Checkpoint(top, ema, state), env |-> env,
                  ignore_keys |-> ignore_keys]
    /\ ret = NoRet

\* self.init_from_ckpt(path, ignore_keys)
ApplyInitFromCkpt ==
    /\ args.fn = "init_from_ckpt"
    /\ ret = NoRet
    /\ ret' = init_from_ckpt(args.sd, args.env, args.ignore_keys)
    /\ UNCHANGED << wfvae, args >>

NextCkpt == ApplyInitFromCkpt

SpecCkpt == InitCkpt /\ [][NextCkpt]_vars

\* C12: the mapping init_from_ckpt takes the weights from is ema_state_dict
\* with "module." removed from its keys when that entry is present and
\* non-empty and NOT_USE_EMA_MODEL is not set; otherwise (the variable set to
\* any value, or the entry missing or empty) it is state_dict["gen_model"] when
\* state_dict holds gen_model, else state_dict when present, else the top-level
\* mapping itself.
C12_SourcePrecedence ==
    ret.fn = "init_from_ckpt" =>
        ret.selected =
            IF args.ema = "weights" /\ ~args.env.set
            THEN << Tensor(EncoderWeight, "ema_state_dict"),
                    Tensor(LossWeight, "ema_state_dict"),
                    Tensor(<< "loss", ".", "bias" >>, "ema_state_dict") >>
            ELSE IF args.state = "gen_model"
                 THEN GenModel
                 ELSE IF args.state = "flat"
                      THEN StateDictFlat
                      ELSE args.sd

\* NOT_USE_EMA_MODEL is set to "0" and the file holds a non-empty
\* ema_state_dict and a state_dict with gen_model: gen_model was taken.
C12_Witness ==
    /\ ret.fn = "init_from_ckpt"
    /\ args.ema = "weights"
    /\ args.env = [set |-> TRUE, value |-> "0"]
    /\ args.state = "gen_model"
    /\ ret.selected = GenModel

\* C13: init_from_ckpt raises no error in the key loop, and the keys handed to
\* load_state_dict are exactly the keys of the selected mapping that start with
\* none of the prefixes of ignore_keys.
C13_IgnoreDeletionExact ==
    ret.fn = "init_from_ckpt" =>
        /\ ret.error = "none"
        /\ { ret.loaded[i].key : i \in 1..Len(ret.loaded) } =
              { k \in { ret.selected[i].key : i \in 1..Len(ret.selected) } :
                  \A j \in 1..Len(args.ignore_keys) : ~StartsWith(k, args.ignore_keys[j]) }

====
